---- MODULE Spec2Model ----
(***************************************************************************)
(* A model of BookLens (src/app.py): one Streamlit script run of main().   *)
(* The form yields the preference record, the button triggers              *)
(* get_book_recommendations, which builds the query, calls                 *)
(* fetch_books_data once, normalises the items with process_book_data and  *)
(* hands the list to main for rendering.                                   *)
(*                                                                         *)
(* Text is a sequence of characters.  ASCII characters are one-character   *)
(* strings; a Hangul syllable is written as its code point ("U+ACFC").     *)
(* JSON / Python values are tagged records: Null (None), Str, Arr, Obj.    *)
(***************************************************************************)
EXTENDS Integers, Sequences, FiniteSets, TLC

VARIABLES
    pc,               \* position of the script run
    user_preferences, \* the record returned by get_user_preferences
    query,            \* get_book_recommendations: query (line 66)
    fetch_query,      \* fetch_books_data: query after line 18
    encoded_query,    \* fetch_books_data: params['q'] (lines 19, 22)
    httpCalls,        \* requests.get calls issued by this run (line 28)
    outcome,          \* how the HTTP call ended
    books_data,       \* value returned by fetch_books_data
    recommendations,  \* value returned by get_book_recommendations
    ui,               \* st.* elements written by this run, in order
    widget_keys,      \* keys of the selectboxes registered by this run
    exception,        \* exception that ended the run, or "none"
    api_key           \* module global GOOGLE_BOOKS_API_KEY (line 11)

vars == <<pc, user_preferences, query, fetch_query, encoded_query, httpCalls,
          outcome, books_data, recommendations, ui, widget_keys, exception,
          api_key>>

(***************************************************************************)
(* Bounds of the model.                                                    *)
(***************************************************************************)
MaxAuthorLen == 1
MaxItems == 2

(***************************************************************************)
(* Python / JSON values.                                                   *)
(***************************************************************************)
Null == [tag |-> "null"]
Str(s) == [tag |-> "str", val |-> s]
Arr(a) == [tag |-> "arr", val |-> a]
Obj(d) == [tag |-> "obj", val |-> d]
EmptyDict == [k \in {} |-> Null]

\* dict.get(key, default)
Get(d, key, default) == IF key \in DOMAIN d.val THEN d.val[key] ELSE default

\* truth value of a Python object: None, "", [] and {} are false
Truthy(v) ==
    CASE v.tag = "null" -> FALSE
      [] v.tag = "str" -> v.val # <<>>
      [] v.tag = "arr" -> v.val # <<>>
      [] v.tag = "obj" -> DOMAIN v.val # {}

Returned(v) == [tag |-> "return", val |-> v]
Raised(e) == [tag |-> "raise", val |-> e]

(***************************************************************************)
(* Text.                                                                   *)
(***************************************************************************)
SPACE == " "
SLASH == "/"
Whitespace == {" "}
Unreserved == {"i", "n", "a", "u", "t", "h", "o", "r"}
INAUTHOR == <<"i", "n", "a", "u", "t", "h", "o", "r", ":">>

\* UTF-8 percent-encoding of the Hangul syllables of the model
Utf8Quoted ==
    [c \in {"U+ACFC", "U+D559", "U+C2DC", "U+C5D0", "U+C138", "U+C774",
            "U+CCA0", "U+CD94", "U+B9AC", "U+CE7C"} |->
        CASE c = "U+ACFC" -> <<"%", "E", "A", "%", "B", "3", "%", "B", "C">>
          [] c = "U+D559" -> <<"%", "E", "D", "%", "9", "5", "%", "9", "9">>
          [] c = "U+C2DC" -> <<"%", "E", "C", "%", "8", "B", "%", "9", "C">>
          [] c = "U+C5D0" -> <<"%", "E", "C", "%", "9", "7", "%", "9", "0">>
          [] c = "U+C138" -> <<"%", "E", "C", "%", "8", "4", "%", "B", "8">>
          [] c = "U+C774" -> <<"%", "E", "C", "%", "9", "D", "%", "B", "4">>
          [] c = "U+CCA0" -> <<"%", "E", "C", "%", "B", "2", "%", "A", "0">>
          [] c = "U+CD94" -> <<"%", "E", "C", "%", "B", "6", "%", "9", "4">>
          [] c = "U+B9AC" -> <<"%", "E", "B", "%", "A", "6", "%", "A", "C">>
          [] c = "U+CE7C" -> <<"%", "E", "C", "%", "B", "9", "%", "B", "C">>]

\* sep.join(parts)
RECURSIVE Join(_, _)
Join(parts, sep) ==
    IF parts = <<>> THEN <<>>
    ELSE IF Len(parts) = 1 THEN parts[1]
    ELSE parts[1] \o sep \o Join(Tail(parts), sep)

\* s.replace(old, new) for one-character old and new
Replace(s, old, new) == [i \in 1..Len(s) |-> IF s[i] = old THEN new ELSE s[i]]

RECURSIVE LStrip(_)
LStrip(s) ==
    IF s # <<>> /\ s[1] \in Whitespace THEN LStrip(Tail(s)) ELSE s

RECURSIVE RStrip(_)
RStrip(s) ==
    IF s # <<>> /\ s[Len(s)] \in Whitespace
    THEN RStrip(SubSeq(s, 1, Len(s) - 1)) ELSE s

\* s.strip()
Strip(s) == RStrip(LStrip(s))

\* urllib.parse.quote of one character, safe='/'
QuoteChar(c) ==
    CASE c \in Unreserved -> <<c>>
      [] c = SLASH -> <<c>>
      [] c = SPACE -> <<"%", "2", "0">>
      [] c = ":" -> <<"%", "3", "A">>
      [] c \in DOMAIN Utf8Quoted -> Utf8Quoted[c]

\* urllib.parse.quote(s)
RECURSIVE quote(_)
quote(s) == IF s = <<>> THEN <<>> ELSE QuoteChar(s[1]) \o quote(Tail(s))

(***************************************************************************)
(* Inputs of the form (get_user_preferences, lines 104-127).               *)
(***************************************************************************)
\* two of the genre options of line 110: "gwahak" (science) and
\* "si/esei" (poetry/essay), the latter holding a slash
GWAHAK == <<"U+ACFC", "U+D559">>
SI_ESEI == <<"U+C2DC", "/", "U+C5D0", "U+C138", "U+C774">>
GenreOptions == {GWAHAK, SI_ESEI}

\* two of the topic options of line 119: "churi" (mystery), "cheolhak"
\* (philosophy)
CHURI == <<"U+CD94", "U+B9AC">>
CHEOLHAK == <<"U+CCA0", "U+D559">>
TopicOptions == {CHURI, CHEOLHAK}

\* free text typed into st.text_input
TextChars == {"U+CE7C", "/", " "}
Texts(n) == UNION {[1..k -> TextChars] : k \in 0..n}

\* st.multiselect: the selected options, each once, in selection order
Selections(options) ==
    {sel \in UNION {[1..k -> options] : k \in 0..Cardinality(options)} :
        \A i, j \in 1..Len(sel) : i # j => sel[i] # sel[j]}

\* the author is the text of the input field; a caller may also pass None
Authors == {Null} \cup {Str(t) : t \in Texts(MaxAuthorLen)}
RecentBooks == {Str(<<>>), Str(<<"U+CE7C">>)}

Preferences ==
    [genre : Selections(GenreOptions), author : Authors,
     recent_book : RecentBooks, topics : Selections(TopicOptions)]

(***************************************************************************)
(* Responses of the Google Books endpoint.                                 *)
(***************************************************************************)
FullVolume(title) ==
    Obj("title" :> Str(title) @@ "authors" :> Arr(<<Str("author")>>) @@
        "publisher" :> Str("publisher") @@ "publishedDate" :> Str("2020") @@
        "description" :> Str("description") @@
        "categories" :> Arr(<<Str("category")>>) @@
        "imageLinks" :> Obj("thumbnail" :> Str("http://thumbnail")) @@
        "previewLink" :> Str("http://preview"))

Items ==
    { Obj("volumeInfo" :> FullVolume("T1")),
      Obj("volumeInfo" :> Obj("title" :> Str("T1") @@
                              "imageLinks" :> Obj(EmptyDict))),
      Obj("id" :> Str("id")),
      Obj("volumeInfo" :> Null),
      Obj("volumeInfo" :> Obj("title" :> Str("T2") @@ "imageLinks" :> Null)) }

ItemLists == UNION {[1..k -> Items] : k \in 0..MaxItems}

\* bodies of a 2xx response: {}, no "items" key, or an "items" array
Responses ==
    {Obj(EmptyDict), Obj("kind" :> Str("books#volumes"))}
    \cup {Obj("kind" :> Str("books#volumes") @@ "items" :> Arr(l)) :
            l \in ItemLists}

\* requests.RequestException subclasses raised by lines 28-29
RequestExceptions == {"ConnectionError", "Timeout", "HTTPError"}

(***************************************************************************)
(* process_book_data (lines 35-48).                                        *)
(***************************************************************************)
NO_TITLE == Str("no title")
NO_AUTHORS == Arr(<<Str("unknown author")>>)
NO_PUBLISHER == Str("no publisher")
NO_DATE == Str("no date")
NO_DESCRIPTION == Str("no description")
NO_CATEGORIES == Arr(<<Str("no category")>>)

process_book_data(book_item) ==
    IF book_item.tag # "obj" THEN Raised("AttributeError")
    ELSE
    LET volume_info == Get(book_item, "volumeInfo", Obj(EmptyDict)) IN
    IF volume_info.tag # "obj" THEN Raised("AttributeError")
    ELSE
    LET image_links == Get(volume_info, "imageLinks", Obj(EmptyDict)) IN
    IF image_links.tag # "obj" THEN Raised("AttributeError")
    ELSE Returned(
        [title |-> Get(volume_info, "title", NO_TITLE),
         authors |-> Get(volume_info, "authors", NO_AUTHORS),
         publisher |-> Get(volume_info, "publisher", NO_PUBLISHER),
         published_date |-> Get(volume_info, "publishedDate", NO_DATE),
         description |-> Get(volume_info, "description", NO_DESCRIPTION),
         categories |-> Get(volume_info, "categories", NO_CATEGORIES),
         image_links |-> Get(image_links, "thumbnail", Null),
         preview_link |-> Get(volume_info, "previewLink", Null)])

(***************************************************************************)
(* get_book_recommendations, query assembly (lines 53-66).                 *)
(***************************************************************************)
\* search_terms with the topics fragment placed before the genre fragment
search_terms_topics_first(prefs) ==
    LET s1 == IF prefs.topics # <<>>
              THEN <<Join(prefs.topics, <<SPACE>>)>> ELSE <<>>
        s2 == IF prefs.genre # <<>>
              THEN Append(s1, Join(prefs.genre, <<SPACE>>)) ELSE s1
        s3 == IF Truthy(prefs.author)
              THEN Append(s2, INAUTHOR \o prefs.author.val) ELSE s2
    IN s3

search_terms(prefs) ==
    LET s1 == IF prefs.genre # <<>>
              THEN <<Join(prefs.genre, <<SPACE>>)>> ELSE <<>>
        s2 == IF prefs.topics # <<>>
              THEN Append(s1, Join(prefs.topics, <<SPACE>>)) ELSE s1
        s3 == IF Truthy(prefs.author)
              THEN Append(s2, INAUTHOR \o prefs.author.val) ELSE s2
    IN s3

BuildQuery(prefs) == Join(search_terms(prefs), <<SPACE>>)

(***************************************************************************)
(* fetch_books_data, query clean-up (lines 18-19).                         *)
(***************************************************************************)
\* CleanQuery without the replacement of the slashes
CleanQuery_keeps_slash(q) == Strip(q)

CleanQuery(q) == Strip(Replace(q, SLASH, SPACE))

(***************************************************************************)
(* main, rendering of the result list (lines 139-151).                     *)
(***************************************************************************)
\* key=f"feedback_{book['title']}" (line 148)
WidgetKey(book) == <<"feedback_", book.title.val>>

\* index of the first record whose key is already registered, 0 if none:
\* Streamlit raises DuplicateWidgetID when st.selectbox is given that key
FirstDuplicate(keys) ==
    LET dup == {j \in 1..Len(keys) : \E i \in 1..(j - 1) : keys[i] = keys[j]}
    IN IF dup = {} THEN 0 ELSE CHOOSE j \in dup : \A k \in dup : j <= k

\* elements written for the first n records: the card of
\* display_book_recommendation (lines 81-102), then the selectbox
RECURSIVE Cards(_)
Cards(n) ==
    IF n = 0 THEN <<>> ELSE Cards(n - 1) \o <<"book", "st.selectbox">>

(***************************************************************************)
(* State machine.                                                          *)
(***************************************************************************)
NoPreferences ==
    [genre |-> <<>>, author |-> Str(<<>>), recent_book |-> Str(<<>>),
     topics |-> <<>>]

\* a script run has ended: Streamlit reruns the script on the next
\* interaction with the page
Idle == pc \in {"form", "done", "crashed"}

Init ==
    /\ pc = "form"
    /\ user_preferences = NoPreferences
    /\ query = <<>>
    /\ fetch_query = <<>>
    /\ encoded_query = <<>>
    /\ httpCalls = 0
    /\ outcome = "none"
    /\ books_data = Null
    /\ recommendations = <<>>
    /\ ui = <<>>
    /\ widget_keys = <<>>
    /\ exception = "none"
    /\ api_key = "GOOGLE_BOOKS_API_KEY"

\* one interaction with the form changes the value of one widget
OneWidgetChanged(prefs) ==
    Cardinality({f \in DOMAIN prefs : prefs[f] # user_preferences[f]}) = 1

\* main (lines 129-135) rerun by a change of the form, the button not
\* pressed: the form is read and nothing else is rendered
GetUserPreferences(prefs) ==
    /\ Idle
    /\ OneWidgetChanged(prefs)
    /\ pc' = "form"
    /\ user_preferences' = prefs
    /\ query' = <<>>
    /\ fetch_query' = <<>>
    /\ encoded_query' = <<>>
    /\ httpCalls' = 0
    /\ outcome' = "none"
    /\ books_data' = Null
    /\ recommendations' = <<>>
    /\ ui' = <<>>
    /\ widget_keys' = <<>>
    /\ exception' = "none"
    /\ UNCHANGED api_key

\* ButtonClick without the early return of lines 69-70
ButtonClick_no_empty_check ==
    /\ Idle
    /\ query' = BuildQuery(user_preferences)
    /\ pc' = "fetch"
    /\ fetch_query' = <<>>
    /\ encoded_query' = <<>>
    /\ httpCalls' = 0
    /\ outcome' = "none"
    /\ books_data' = Null
    /\ recommendations' = <<>>
    /\ ui' = <<>>
    /\ widget_keys' = <<>>
    /\ exception' = "none"
    /\ UNCHANGED <<user_preferences, api_key>>

\* main (lines 135-137) with the button pressed: get_book_recommendations
\* up to the call of fetch_books_data (lines 53-72)
ButtonClick ==
    /\ Idle
    /\ query' = BuildQuery(user_preferences)
    /\ IF Strip(query') = <<>>
       THEN pc' = "returned"
       ELSE pc' = "fetch"
    /\ fetch_query' = <<>>
    /\ encoded_query' = <<>>
    /\ httpCalls' = 0
    /\ outcome' = "none"
    /\ books_data' = Null
    /\ recommendations' = <<>>
    /\ ui' = <<>>
    /\ widget_keys' = <<>>
    /\ exception' = "none"
    /\ UNCHANGED <<user_preferences, api_key>>

\* fetch_books_data (lines 14-30): the GET answers 2xx with body `response`
FetchOk(response) ==
    /\ pc = "fetch"
    /\ fetch_query' = CleanQuery(query)
    /\ encoded_query' = quote(fetch_query')
    /\ httpCalls' = httpCalls + 1
    /\ outcome' = "ok"
    /\ books_data' = response
    /\ pc' = "fetched"
    /\ UNCHANGED <<user_preferences, query, recommendations, ui, widget_keys,
                   exception, api_key>>

\* FetchFail that swallows the exception without st.error
FetchFail_silent(e) ==
    /\ pc = "fetch"
    /\ fetch_query' = CleanQuery(query)
    /\ encoded_query' = quote(fetch_query')
    /\ httpCalls' = httpCalls + 1
    /\ outcome' = e
    /\ books_data' = Null
    /\ pc' = "fetched"
    /\ UNCHANGED <<user_preferences, query, recommendations, ui, widget_keys,
                   exception, api_key>>

\* FetchFail that issues the request once more after the first failure
FetchFail_retry(e) ==
    /\ pc = "fetch"
    /\ fetch_query' = CleanQuery(query)
    /\ encoded_query' = quote(fetch_query')
    /\ httpCalls' = httpCalls + 1
    /\ outcome' = e
    /\ ui' = Append(ui, "st.error")
    /\ books_data' = Null
    /\ pc' = IF httpCalls = 0 THEN "fetch" ELSE "fetched"
    /\ UNCHANGED <<user_preferences, query, recommendations, widget_keys,
                   exception, api_key>>

\* fetch_books_data (lines 14-33): requests.get or raise_for_status raises
\* the RequestException `e`
FetchFail(e) ==
    /\ pc = "fetch"
    /\ fetch_query' = CleanQuery(query)
    /\ encoded_query' = quote(fetch_query')
    /\ httpCalls' = httpCalls + 1
    /\ outcome' = e
    /\ ui' = Append(ui, "st.error")
    /\ books_data' = Null
    /\ pc' = "fetched"
    /\ UNCHANGED <<user_preferences, query, recommendations, widget_keys,
                   exception, api_key>>

\* get_book_recommendations after the fetch (lines 74-78)
NormalizeItems ==
    /\ pc = "fetched"
    /\ IF ~Truthy(books_data) \/ "items" \notin DOMAIN books_data.val
       THEN /\ recommendations' = <<>>
            /\ pc' = "returned"
            /\ UNCHANGED exception
       ELSE LET items == books_data.val["items"].val
                results == [i \in 1..Len(items) |->
                               process_book_data(items[i])]
                failed == {i \in 1..Len(items) : results[i].tag = "raise"}
            IN IF failed = {}
               THEN /\ recommendations' =
                         [i \in 1..Len(items) |-> results[i].val]
                    /\ pc' = "returned"
                    /\ UNCHANGED exception
               ELSE /\ exception' =
                         results[CHOOSE i \in failed :
                                     \A j \in failed : i <= j].val
                    /\ pc' = "crashed"
                    /\ UNCHANGED recommendations
    /\ UNCHANGED <<user_preferences, query, fetch_query, encoded_query,
                   httpCalls, outcome, books_data, ui, widget_keys, api_key>>

\* main (lines 139-151)
RenderResults ==
    /\ pc = "returned"
    /\ IF recommendations # <<>>
       THEN LET keys == [i \in 1..Len(recommendations) |->
                            WidgetKey(recommendations[i])]
                d == FirstDuplicate(keys)
                n == IF d = 0 THEN Len(keys) ELSE d - 1
            IN /\ widget_keys' = SubSeq(keys, 1, n)
               /\ ui' = ui \o <<"st.header">> \o Cards(n)
                           \o (IF d = 0 THEN <<>> ELSE <<"book">>)
               /\ pc' = IF d = 0 THEN "done" ELSE "crashed"
               /\ exception' = IF d = 0 THEN "none" ELSE "DuplicateWidgetID"
       ELSE /\ ui' = Append(ui, "st.warning")
            /\ pc' = "done"
            /\ UNCHANGED <<widget_keys, exception>>
    /\ UNCHANGED <<user_preferences, query, fetch_query, encoded_query,
                   httpCalls, outcome, books_data, recommendations, api_key>>

Next ==
    \/ \E prefs \in Preferences : GetUserPreferences(prefs)
    \/ ButtonClick
    \/ \E response \in Responses : FetchOk(response)
    \/ \E e \in RequestExceptions : FetchFail(e)
    \/ NormalizeItems
    \/ RenderResults

Spec == Init /\ [][Next]_vars

(***************************************************************************)
(* Properties.                                                             *)
(***************************************************************************)
Range(f) == {f[i] : i \in DOMAIN f}
Count(seq, x) == Cardinality({i \in DOMAIN seq : seq[i] = x})
Invoked == pc # "form"
Searched == pc \in {"fetched", "returned", "done", "crashed"}
EmptyPreferences ==
    /\ user_preferences.genre = <<>>
    /\ user_preferences.topics = <<>>
    /\ user_preferences.author \in {Null, Str(<<>>)}
HasItems == outcome = "ok" /\ "items" \in DOMAIN books_data.val
ResponseItems == books_data.val["items"].val

\* C1: with empty genres, empty topics and an empty or absent author,
\* whatever recent_book holds, the query is empty, fetch_books_data is never
\* entered (no HTTP call) and the invocation returns the empty list.
C1_EmptyPreferencesNoSearch ==
    (Invoked /\ EmptyPreferences) =>
        /\ query = <<>>
        /\ pc \in {"returned", "done"}
        /\ httpCalls = 0
        /\ outcome = "none"
        /\ recommendations = <<>>

C1_Witness ==
    /\ pc = "returned"
    /\ EmptyPreferences
    /\ user_preferences.author = Null
    /\ user_preferences.recent_book # Str(<<>>)

\* the words of a list separated by single spaces
RECURSIVE Words(_)
Words(list) ==
    IF Len(list) = 0 THEN <<>>
    ELSE IF Len(list) = 1 THEN list[1]
    ELSE Words(SubSeq(list, 1, Len(list) - 1)) \o <<" ">> \o list[Len(list)]

\* the query the specification prescribes for a preference record
ExpectedQuery(prefs) ==
    LET hasG == prefs.genre # <<>>
        hasT == prefs.topics # <<>>
        hasA == prefs.author \notin {Null, Str(<<>>)}
        g == Words(prefs.genre)
        t == Words(prefs.topics)
        a == <<"i", "n", "a", "u", "t", "h", "o", "r", ":">>
               \o prefs.author.val
    IN CASE hasG /\ hasT /\ hasA -> g \o <<" ">> \o t \o <<" ">> \o a
         [] hasG /\ hasT /\ ~hasA -> g \o <<" ">> \o t
         [] hasG /\ ~hasT /\ hasA -> g \o <<" ">> \o a
         [] hasG /\ ~hasT /\ ~hasA -> g
         [] ~hasG /\ hasT /\ hasA -> t \o <<" ">> \o a
         [] ~hasG /\ hasT /\ ~hasA -> t
         [] ~hasG /\ ~hasT /\ hasA -> a
         [] ~hasG /\ ~hasT /\ ~hasA -> <<>>

\* the example of the specification: genres [gwahak], topics [cheolhak],
\* author "kal"
ExamplePreferences ==
    /\ user_preferences.genre = <<GWAHAK>>
    /\ user_preferences.topics = <<CHEOLHAK>>
    /\ user_preferences.author = Str(<<"U+CE7C">>)

ExampleQuery ==
    <<"U+ACFC", "U+D559", " ", "U+CCA0", "U+D559", " ",
      "i", "n", "a", "u", "t", "h", "o", "r", ":", "U+CE7C">>

\* C2: the query built by get_book_recommendations is the single-space join
\* of the present fragments in the order genres, topics, inauthor:<author>.
C2_QueryIsOrderedJoin ==
    Invoked =>
        /\ query = ExpectedQuery(user_preferences)
        /\ ExamplePreferences => query = ExampleQuery
        /\ (user_preferences.genre = <<>> /\ user_preferences.topics = <<>>
              /\ user_preferences.author = Str(<<"U+CE7C">>))
             => query = <<"i", "n", "a", "u", "t", "h", "o", "r", ":",
                          "U+CE7C">>

C2_Witness == pc = "fetch" /\ ExamplePreferences /\ query = ExampleQuery

\* C3: when the HTTP call fails, the invocation returns the empty list, the
\* failure is reported exactly once with st.error, and no exception escapes.
C3_FailureReportedOnce ==
    outcome \in RequestExceptions =>
        /\ pc \in {"fetched", "returned", "done"}
        /\ exception = "none"
        /\ Count(ui, "st.error") = 1
        /\ books_data = Null
        /\ recommendations = <<>>

C3_Witness ==
    /\ pc = "returned"
    /\ outcome = "Timeout"
    /\ recommendations = <<>>
    /\ ui = <<"st.error">>

\* C4: a successful response without items is surfaced with the warning and
\* no error; a transport failure is surfaced with the error and not with the
\* warning.
C4_OutcomesDistinguished ==
    pc = "done" =>
        /\ (outcome = "ok" /\ recommendations = <<>>) =>
              (Count(ui, "st.warning") = 1 /\ Count(ui, "st.error") = 0)
        /\ outcome \in RequestExceptions =>
              (Count(ui, "st.error") = 1 /\ Count(ui, "st.warning") = 0)

\* C5: on a successful response the invocation returns one record per item,
\* record i being the normalisation of item i, and the empty list when items
\* is absent or empty.
C5_OneRecordPerItemInOrder ==
    (outcome = "ok" /\ pc \in {"returned", "done", "crashed"}) =>
        IF HasItems
        THEN /\ exception # "AttributeError"
             /\ Len(recommendations) = Len(ResponseItems)
             /\ \A i \in 1..Len(ResponseItems) :
                  process_book_data(ResponseItems[i])
                    = Returned(recommendations[i])
        ELSE recommendations = <<>> /\ exception = "none"

\* the value of a field of an item: the value under volumeInfo when present,
\* the default otherwise
FieldOrDefault(item, key, default) ==
    IF "volumeInfo" \in DOMAIN item.val
    THEN IF item.val["volumeInfo"].tag = "obj"
            /\ key \in DOMAIN item.val["volumeInfo"].val
         THEN item.val["volumeInfo"].val[key]
         ELSE default
    ELSE default

ThumbnailOrNull(item) ==
    LET links == FieldOrDefault(item, "imageLinks", Null)
    IN IF links.tag = "obj"
       THEN IF "thumbnail" \in DOMAIN links.val
            THEN links.val["thumbnail"] ELSE Null
       ELSE Null

ExpectedRecord(item) ==
    [title |-> FieldOrDefault(item, "title", Str("no title")),
     authors |-> FieldOrDefault(item, "authors",
                                Arr(<<Str("unknown author")>>)),
     publisher |-> FieldOrDefault(item, "publisher", Str("no publisher")),
     published_date |-> FieldOrDefault(item, "publishedDate", Str("no date")),
     description |-> FieldOrDefault(item, "description",
                                    Str("no description")),
     categories |-> FieldOrDefault(item, "categories",
                                   Arr(<<Str("no category")>>)),
     image_links |-> ThumbnailOrNull(item),
     preview_link |-> FieldOrDefault(item, "previewLink", Null)]

\* C6: for every raw item process_book_data returns a record of the eight
\* fields, each the item's value when present and its default otherwise.
C6_RecordHasValuesOrDefaults ==
    HasItems =>
        \A i \in 1..Len(ResponseItems) :
            LET r == process_book_data(ResponseItems[i])
            IN /\ r.tag = "return"
               /\ r.val = ExpectedRecord(ResponseItems[i])
               /\ (pc \in {"returned", "done"}
                     => recommendations[i] = ExpectedRecord(ResponseItems[i]))

\* C7: field extraction never fails: no item of a successful response,
\* malformed or partial, makes process_book_data raise and abort the search.
C7_ExtractionNeverFails ==
    /\ ~(pc = "crashed" /\ exception = "AttributeError")
    /\ (outcome = "ok" /\ pc \in {"returned", "done"} /\ HasItems)
          => Len(recommendations) = Len(ResponseItems)

\* C8: an invocation whose query is not empty issues exactly one HTTP GET,
\* never repeated after a failure or a success, and changes no state shared
\* with other invocations.
C8_ExactlyOneCall ==
    /\ (Searched /\ Strip(query) # <<>>) => httpCalls = 1
    /\ pc = "fetch" => httpCalls = 0
    /\ api_key = "GOOGLE_BOOKS_API_KEY"

C8_Witness ==
    /\ pc = "done"
    /\ outcome = "HTTPError"
    /\ httpCalls = 1

NoSurroundingWhitespace(s) ==
    s # <<>> => (s[1] \notin Whitespace /\ s[Len(s)] \notin Whitespace)

\* C9: the query text placed in the request holds no slash and has no
\* leading or trailing whitespace.
C9_NoSlashInRequest ==
    httpCalls > 0 =>
        /\ SLASH \notin Range(fetch_query)
        /\ SLASH \notin Range(encoded_query)
        /\ NoSurroundingWhitespace(fetch_query)
        /\ NoSurroundingWhitespace(encoded_query)
        /\ encoded_query # <<>>

C9_Witness ==
    /\ httpCalls = 1
    /\ SI_ESEI \in Range(user_preferences.genre)
    /\ SLASH \in Range(query)
    /\ query[Len(query)] = SPACE
    /\ SLASH \notin Range(encoded_query)

\* C10: whenever main renders a non-empty list, every record's feedback
\* selector is registered under a key different from the others', so the
\* rendering never fails on a duplicate key.
C10_WidgetKeysDistinct ==
    /\ exception # "DuplicateWidgetID"
    /\ (pc = "done" /\ recommendations # <<>>) =>
          /\ Len(widget_keys) = Len(recommendations)
          /\ \A i, j \in 1..Len(widget_keys) :
                i # j => widget_keys[i] # widget_keys[j]

====
